---- MODULE Spec2Model ----
(***************************************************************************)
(* input-defs.h: fallback definitions of Linux input event codes.          *)
(*                                                                         *)
(* The header is a straight-line preprocessor program: one #include of the *)
(* platform's input header followed by 24 blocks                           *)
(*     #ifndef NAME / #define NAME literal / #endif                        *)
(* The model is the C preprocessor's macro table while it processes the    *)
(* header, one directive block per step, for every build environment       *)
(* within the bounds below.                                                *)
(***************************************************************************)
EXTENDS Integers, Sequences, FiniteSets, TLC

(* At most this many names deviate from the two base environments (nothing *)
(* defined beforehand; everything defined by the platform header).         *)
MaxPredefined == 2

(* The 24 blocks in source order, with the source lines of each block: the *)
(* name its #ifndef tests, the name its #define defines, and the literal.  *)
Table ==
  <<
     [ifndef |-> "BTN_EAST",           define |-> "BTN_EAST",           value |-> \H131],  \* 3-5
     [ifndef |-> "BTN_SOUTH",          define |-> "BTN_SOUTH",          value |-> \H130],  \* 6-8
     [ifndef |-> "BTN_NORTH",          define |-> "BTN_NORTH",          value |-> \H133],  \* 9-11
     [ifndef |-> "BTN_WEST",           define |-> "BTN_WEST",           value |-> \H134],  \* 12-14
     [ifndef |-> "BTN_DPAD_LEFT",      define |-> "BTN_DPAD_LEFT",      value |-> \H222],  \* 15-17
     [ifndef |-> "BTN_DPAD_RIGHT",     define |-> "BTN_DPAD_RIGHT",     value |-> \H223],  \* 18-20
     [ifndef |-> "BTN_DPAD_UP",        define |-> "BTN_DPAD_UP",        value |-> \H220],  \* 21-23
     [ifndef |-> "BTN_DPAD_DOWN",      define |-> "BTN_DPAD_DOWN",      value |-> \H221],  \* 24-26
     [ifndef |-> "ABS_CYMBAL_LEFT",    define |-> "ABS_CYMBAL_LEFT",    value |-> \H45],  \* 27-29
     [ifndef |-> "ABS_CYMBAL_RIGHT",   define |-> "ABS_CYMBAL_RIGHT",   value |-> \H46],  \* 30-32
     [ifndef |-> "ABS_TOM_LEFT",       define |-> "ABS_TOM_LEFT",       value |-> \H41],  \* 33-35
     [ifndef |-> "ABS_TOM_RIGHT",      define |-> "ABS_TOM_RIGHT",      value |-> \H42],  \* 36-38
     [ifndef |-> "ABS_TOM_FAR_RIGHT",  define |-> "ABS_TOM_FAR_RIGHT",  value |-> \H43],  \* 39-41
     [ifndef |-> "ABS_BASS",           define |-> "ABS_BASS",           value |-> \H48],  \* 42-44
     [ifndef |-> "ABS_HI_HAT",         define |-> "ABS_HI_HAT",         value |-> \H49],  \* 45-47
     [ifndef |-> "BTN_FRET_FAR_UP",    define |-> "BTN_FRET_FAR_UP",    value |-> \H224],  \* 48-50
     [ifndef |-> "BTN_FRET_UP",        define |-> "BTN_FRET_UP",        value |-> \H225],  \* 51-53
     [ifndef |-> "BTN_FRET_MID",       define |-> "BTN_FRET_MID",       value |-> \H226],  \* 54-56
     [ifndef |-> "BTN_FRET_LOW",       define |-> "BTN_FRET_LOW",       value |-> \H227],  \* 57-59
     [ifndef |-> "BTN_FRET_FAR_LOW",   define |-> "BTN_FRET_FAR_LOW",   value |-> \H228],  \* 60-62
     [ifndef |-> "BTN_STRUM_BAR_UP",   define |-> "BTN_STRUM_BAR_UP",   value |-> \H229],  \* 63-65
     [ifndef |-> "BTN_STRUM_BAR_DOWN", define |-> "BTN_STRUM_BAR_DOWN", value |-> \H22a],  \* 66-68
     [ifndef |-> "ABS_WHAMMY_BAR",     define |-> "ABS_WHAMMY_BAR",     value |-> \H4b],  \* 69-71
     [ifndef |-> "ABS_FRET_BOARD",     define |-> "ABS_FRET_BOARD",     value |-> \H4a]   \* 72-74
  >>

(* The names the header defines.                                           *)
Symbols == { Table[i].define : i \in 1..Len(Table) }

(* A name the platform header defines that the table does not list         *)
(* (BTN_GAMEPAD, 0x130 in the kernel's input-event-codes.h).               *)
OtherNames == { "BTN_GAMEPAD" }

Names == Symbols \cup OtherNames

(* The value the kernel's headers give a name: for the names of the table  *)
(* the literal the table carries, copied from the kernel.                  *)
KernelValue(n) ==
  IF n \in Symbols
  THEN Table[CHOOSE i \in 1..Len(Table) : Table[i].define = n].value
  ELSE \H130

(* line 1: #include <linux/input.h>                                        *)
Include == [op |-> "include", file |-> "linux/input.h"]

(* Variants of a block with one slip of the pen, used to show that the     *)
(* properties below depend on the blocks as written: a mistyped literal in *)
(* row 22; row 2 carrying row 1's literal; row 1 defining a name outside   *)
(* the table; row 1 testing row 2's name.                                  *)
GuardWrongLiteral(i) ==
  [op |-> "guard", ifndef |-> Table[i].ifndef, define |-> Table[i].define,
   value |-> IF i = 22 THEN \H22b ELSE Table[i].value]

GuardDuplicateLiteral(i) ==
  [op |-> "guard", ifndef |-> Table[i].ifndef, define |-> Table[i].define,
   value |-> IF i = 2 THEN Table[1].value ELSE Table[i].value]

GuardWrongName(i) ==
  [op |-> "guard", ifndef |-> Table[i].ifndef,
   define |-> IF i = 1 THEN "BTN_GAMEPAD" ELSE Table[i].define,
   value |-> Table[i].value]

GuardTestsNeighbour(i) ==
  [op |-> "guard",
   ifndef |-> IF i = 1 THEN Table[2].ifndef ELSE Table[i].ifndef,
   define |-> Table[i].define, value |-> Table[i].value]

(* Block i: #ifndef NAME / #define NAME literal / #endif                   *)
Guard(i) == [op |-> "guard", ifndef |-> Table[i].ifndef,
             define |-> Table[i].define, value |-> Table[i].value]

(* Variant of the header with the #include after the blocks.              *)
HeaderIncludeLast == [ i \in 1..Len(Table) |-> Guard(i) ] \o <<Include>>

(* The directives of the header in source order.                           *)
Header == <<Include>> \o [ i \in 1..Len(Table) |-> Guard(i) ]

(* pc once the last directive has been processed.                          *)
Done == Len(Header) + 1

VARIABLES
  macros,     \* the preprocessor's macro table: defined name -> value
  pc,         \* index in Header of the next directive
  platform,   \* what <linux/input.h> defines in this build environment
  env0,       \* the macro table before the header was first reached
  taken,      \* names a block has #defined in the current processing
  skipped,    \* names whose block was skipped in the current processing
  redefined,  \* names #defined while defined with another value
  again,      \* TRUE once the header is being processed a further time
  prev        \* the macro table when the latest re-inclusion started

vars == << macros, pc, platform, env0, taken, skipped, redefined, again, prev >>

(* All subsets of S with at most k elements.                               *)
RECURSIVE UpTo(_, _)
UpTo(S, k) ==
  IF k = 0 THEN { {} }
  ELSE LET P == UpTo(S, k - 1) IN P \cup { p \cup {x} : p \in P, x \in S }

(* Variants of the test: a block without its #ifndef, and #ifdef written   *)
(* for #ifndef.                                                            *)
IfNDefAlways(m, n) == TRUE

IfDefSlip(m, n) == n \in DOMAIN m

(* #ifndef n: true iff n is not in the macro table.                        *)
IfNDef(m, n) == n \notin DOMAIN m

(* #define n v on macro table m.                                           *)
Define(m, n, v) == [ x \in DOMAIN m \cup {n} |-> IF x = n THEN v ELSE m[x] ]

(* A #define of a name that is defined with a different value is a         *)
(* redefinition (a constraint violation, C11 6.10.3p2); with the same      *)
(* value it is permitted and changes nothing.                              *)
Conflicts(m, n, v) == n \in DOMAIN m /\ m[n] # v

(* The build environments. Earlier code of the translation unit has        *)
(* defined the names of env0 and the platform header defines those of      *)
(* platform; the two do not define the same name (the platform header      *)
(* itself includes cleanly). The values are the kernel's (d = 0) or all    *)
(* differ from the kernel's (d = 1).                                       *)
(*  - sparse: at most MaxPredefined names are defined, each by either      *)
(*    party;                                                               *)
(*  - full: the platform header defines every name but at most             *)
(*    MaxPredefined.                                                       *)
SparseEnv(e, p) ==
  \E D \in UpTo(Names, MaxPredefined) :
    \E P \in SUBSET D :
      \E d \in {0, 1} :
        /\ e = [ n \in D \ P |-> KernelValue(n) + d ]
        /\ p = [ n \in P |-> KernelValue(n) + d ]

FullEnv(e, p) ==
  \E D \in UpTo(Names, MaxPredefined) :
    \E d \in {0, 1} :
      /\ e = [ n \in {} |-> 0 ]
      /\ p = [ n \in Names \ D |-> KernelValue(n) + d ]

Init ==
  /\ \/ SparseEnv(env0, platform)
     \/ FullEnv(env0, platform)
  /\ macros = env0
  /\ pc = 1
  /\ taken = {}
  /\ skipped = {}
  /\ redefined = {}
  /\ again = FALSE
  /\ prev = env0

(* line 1: the platform header's definitions enter the macro table.        *)
DoInclude ==
  /\ pc < Done
  /\ Header[pc].op = "include"
  /\ macros' = [ x \in DOMAIN macros \cup DOMAIN platform |->
                   IF x \in DOMAIN platform THEN platform[x] ELSE macros[x] ]
  /\ redefined' = redefined \cup
                   { x \in DOMAIN platform : Conflicts(macros, x, platform[x]) }
  /\ pc' = pc + 1
  /\ UNCHANGED << platform, env0, taken, skipped, again, prev >>

(* #ifndef true: the block's #define is executed.                          *)
GuardDefine ==
  /\ pc < Done
  /\ Header[pc].op = "guard"
  /\ IfNDef(macros, Header[pc].ifndef)
  /\ macros' = Define(macros, Header[pc].define, Header[pc].value)
  /\ taken' = taken \cup { Header[pc].define }
  /\ redefined' = IF Conflicts(macros, Header[pc].define, Header[pc].value)
                  THEN redefined \cup { Header[pc].define } ELSE redefined
  /\ pc' = pc + 1
  /\ UNCHANGED << platform, env0, skipped, again, prev >>

(* #ifndef false: the block is skipped up to its #endif.                   *)
GuardSkip ==
  /\ pc < Done
  /\ Header[pc].op = "guard"
  /\ ~IfNDef(macros, Header[pc].ifndef)
  /\ skipped' = skipped \cup { Header[pc].define }
  /\ pc' = pc + 1
  /\ UNCHANGED << macros, platform, env0, taken, redefined, again, prev >>

(* The header has no include guard of its own: a further #include of it    *)
(* processes every directive again.                                        *)
Reinclude ==
  /\ pc = Done
  /\ pc' = 1
  /\ again' = TRUE
  /\ prev' = macros
  /\ taken' = {}
  /\ skipped' = {}
  /\ UNCHANGED << macros, platform, env0, redefined >>

Next == DoInclude \/ GuardDefine \/ GuardSkip \/ Reinclude

Spec == Init /\ [][Next]_vars

(***************************************************************************)
(* The properties of the header.                                           *)
(***************************************************************************)

(* The constant table as documented: symbol and fallback literal.          *)
Listed ==
  { <<"BTN_EAST", \H131>>, <<"BTN_SOUTH", \H130>>, <<"BTN_NORTH", \H133>>,
    <<"BTN_WEST", \H134>>, <<"BTN_DPAD_LEFT", \H222>>,
    <<"BTN_DPAD_RIGHT", \H223>>, <<"BTN_DPAD_UP", \H220>>,
    <<"BTN_DPAD_DOWN", \H221>>, <<"ABS_CYMBAL_LEFT", \H45>>,
    <<"ABS_CYMBAL_RIGHT", \H46>>, <<"ABS_TOM_LEFT", \H41>>,
    <<"ABS_TOM_RIGHT", \H42>>, <<"ABS_TOM_FAR_RIGHT", \H43>>,
    <<"ABS_BASS", \H48>>, <<"ABS_HI_HAT", \H49>>,
    <<"BTN_FRET_FAR_UP", \H224>>, <<"BTN_FRET_UP", \H225>>,
    <<"BTN_FRET_MID", \H226>>, <<"BTN_FRET_LOW", \H227>>,
    <<"BTN_FRET_FAR_LOW", \H228>>, <<"BTN_STRUM_BAR_UP", \H229>>,
    <<"BTN_STRUM_BAR_DOWN", \H22a>>, <<"ABS_WHAMMY_BAR", \H4b>>,
    <<"ABS_FRET_BOARD", \H4a>> }

ListedNames == { r[1] : r \in Listed }

ListedFallback == [ s \in ListedNames |-> (CHOOSE r \in Listed : r[1] = s)[2] ]

ListedValue(s) == ListedFallback[s]

(* The two event-code namespaces of the documented names.                  *)
AbsNames ==
  { "ABS_CYMBAL_LEFT", "ABS_CYMBAL_RIGHT", "ABS_TOM_LEFT", "ABS_TOM_RIGHT",
    "ABS_TOM_FAR_RIGHT", "ABS_BASS", "ABS_HI_HAT", "ABS_WHAMMY_BAR",
    "ABS_FRET_BOARD" }

BtnNames == ListedNames \ AbsNames

(* What the environment (earlier code and the platform header) defines,    *)
(* and the value it gives.                                                 *)
EnvDefined == DOMAIN env0 \cup DOMAIN platform

EnvValue(n) == IF n \in DOMAIN platform THEN platform[n] ELSE env0[n]

(* The header has been processed to its end.                               *)
Included == pc = Done

(* C1: after inclusion, every documented symbol the environment did not    *)
(* define has exactly the fallback literal documented for it.              *)
C1_FallbackLiteral ==
  Included =>
    \A s \in ListedNames \ EnvDefined :
      s \in DOMAIN macros /\ macros[s] = ListedValue(s)

(* C1 witness: the header was processed with nothing defined beforehand,   *)
(* so all 24 symbols carry their fallback.                                 *)
C1_Witness ==
  /\ Included
  /\ EnvDefined = {}
  /\ Cardinality(ListedNames) = 24
  /\ taken = ListedNames
  /\ macros["BTN_STRUM_BAR_DOWN"] = 554

(* C2: after inclusion, every documented symbol the environment defined    *)
(* before the guards still has the environment's value and was not         *)
(* redefined, whatever that value is.                                      *)
C2_EnvironmentKept ==
  Included =>
    \A s \in ListedNames \cap EnvDefined :
      /\ s \in DOMAIN macros
      /\ macros[s] = EnvValue(s)
      /\ s \notin redefined

(* C2 witness: a symbol predefined with a value other than its fallback    *)
(* literal has that value after inclusion.                                 *)
C2_Witness ==
  /\ Included
  /\ \E s \in ListedNames \cap DOMAIN env0 :
       env0[s] # ListedValue(s) /\ macros[s] = env0[s]
  /\ \E s \in ListedNames \cap DOMAIN platform :
       platform[s] # ListedValue(s) /\ macros[s] = platform[s]

(* C3: after inclusion all 24 symbols are defined, each with one integer   *)
(* value, and none has been defined a second time.                         *)
C3_AllDefinedOnce ==
  Included =>
    /\ ListedNames \subseteq DOMAIN macros
    /\ \A s \in ListedNames : macros[s] \in Nat
    /\ redefined = {}

(* C3 witness: an environment that predefines some of the symbols and not  *)
(* others has been completed to all 24.                                    *)
C3_Witness ==
  /\ Included
  /\ ListedNames \cap EnvDefined # {}
  /\ taken # {}
  /\ Cardinality(DOMAIN macros \cap ListedNames) = 24

(* C4: processing the header adds no name besides the 24 documented ones   *)
(* and what the platform header brings, and every name defined beforehand  *)
(* or by the platform header keeps its value; this holds at every point.   *)
C4_NoOtherEffect ==
  /\ DOMAIN macros \subseteq ListedNames \cup EnvDefined
  /\ \A n \in DOMAIN env0 : n \in DOMAIN macros /\ macros[n] = env0[n]
  /\ pc > 1 =>
       \A n \in DOMAIN platform : n \in DOMAIN macros /\ macros[n] = platform[n]

(* C4 witness: a name outside the table that existed beforehand is         *)
(* unchanged after an inclusion that took fallbacks.                       *)
C4_Witness ==
  /\ Included
  /\ taken # {}
  /\ \E n \in DOMAIN env0 \ ListedNames : macros[n] = env0[n]

(* C5: whenever a guard has been evaluated the platform header's           *)
(* definitions are already in the macro table, so no symbol the platform   *)
(* header defines takes its fallback.                                      *)
C5_PlatformFirst ==
  /\ (taken \cup skipped # {}) =>
       \A n \in DOMAIN platform : n \in DOMAIN macros /\ macros[n] = platform[n]
  /\ taken \cap DOMAIN platform = {}
  /\ ListedNames \cap DOMAIN platform \cap (taken \cup skipped) \subseteq skipped

(* C5 witness: the platform header defines a documented symbol, its guard  *)
(* was skipped, and the fallback of another symbol was taken.              *)
C5_Witness ==
  /\ Included
  /\ \E s \in ListedNames \cap DOMAIN platform :
       s \in skipped /\ platform[s] # ListedValue(s)
  /\ taken # {}

(* C6: the result for a symbol depends on that symbol alone: once its      *)
(* guard has been evaluated it has the environment's value if the          *)
(* environment defined it and its fallback literal if not, whatever the    *)
(* environment did with the other symbols.                                 *)
C6_GuardsIndependent ==
  \A s \in ListedNames :
    (s \in taken \cup skipped \/ Included) =>
      /\ s \in DOMAIN macros
      /\ macros[s] = IF s \in EnvDefined THEN EnvValue(s) ELSE ListedValue(s)
      /\ ~again => (s \in skipped <=> s \in EnvDefined)

(* C6 witness: two symbols are predefined with values that are not their   *)
(* fallbacks, and a symbol between them in the table took its fallback.    *)
C6_Witness ==
  /\ Included
  /\ "BTN_EAST" \in EnvDefined /\ macros["BTN_EAST"] = \H132
  /\ "BTN_NORTH" \in EnvDefined /\ macros["BTN_NORTH"] = \H134
  /\ "BTN_SOUTH" \in taken /\ macros["BTN_SOUTH"] = \H130

(* C7: processing the header again, any number of times, leaves the macro  *)
(* table as the previous processing left it, at every point of the         *)
(* re-processing, takes no fallback and redefines nothing.                 *)
C7_Idempotent ==
  again => /\ macros = prev
           /\ taken = {}
           /\ redefined = {}

(* C7 witness: a second processing has run to its end after a first one    *)
(* that took fallbacks.                                                    *)
C7_Witness ==
  /\ again
  /\ Included
  /\ skipped = ListedNames
  /\ \E s \in ListedNames : s \notin EnvDefined /\ macros[s] = ListedValue(s)

(* C8: after inclusion the fallbacks taken are pairwise distinct within    *)
(* the BTN_ namespace and within the ABS_ namespace (15 and 9 names).      *)
C8_DistinctCodes ==
  /\ Cardinality(BtnNames) = 15
  /\ Cardinality(AbsNames) = 9
  /\ Included =>
       \A a, b \in taken :
         (a # b /\ (a \in AbsNames <=> b \in AbsNames)) => macros[a] # macros[b]

(* C8 witness: all 24 symbols took their fallback.                         *)
C8_Witness ==
  /\ Included
  /\ ~again
  /\ taken = BtnNames \cup AbsNames
  /\ Cardinality(taken) = 24
====
